---- MODULE Spec2Model ----
(***************************************************************************)
(* A model of hlsvod.ManagerCtx (src/hlsvod/manager.go): the lifecycle     *)
(* (Start, Stop, the initialization goroutine), the readiness gate, the    *)
(* metadata cache policy (loadMetadata, fetchMetadata), the playlist       *)
(* generator (getPlaylist) and the two HTTP handlers (ServePlaylist,       *)
(* ServeMedia).                                                            *)
(*                                                                         *)
(* Time stamps are integers in microseconds (ffprobe prints pkt_pts_time   *)
(* with six decimals).  A channel is a natural number, 0 being the nil     *)
(* channel; `closed` is the set of channels that have been closed.  A      *)
(* section of code between m.mu.Lock() and m.mu.Unlock() is one step.  A   *)
(* Go panic outside an HTTP handler ends the process: `panicked` records   *)
(* its message and no step follows it.                                     *)
(***************************************************************************)
EXTENDS Integers, Sequences, FiniteSets, TLC

\* ------------------------------------------------------------------ bounds
MaxStarts == 2        \* Start calls that get past the "already running" check
MaxStops == 2         \* Stop calls
NumPlaylistReqs == 1  \* concurrent playlist requests
NumMediaReqs == 2     \* concurrent segment requests
MaxSegs == 1          \* segments of the media served by the Manager
MaxTick == 7          \* largest time stamp tried on getPlaylist, in ticks
MaxKeyframes == 4     \* longest time stamp sequence tried on getPlaylist

\* ------------------------------------------------------- program constants
segmentDuration == 4750000   \* 4.75 s, in microseconds
MicrosPerMilli == 1000       \* "%.3f" keeps three decimals of a second
MicrosPerCenti == 10000      \* "%.2f" keeps two decimals of a second
SegmentPrefix == "seg"       \* config.SegmentPrefix, fixed for a Manager

VARIABLES
    config,         \* m.config: Cache, CacheDir
    media,          \* the media file: what the probes report for it
    cache,          \* the cache files, per backend
    disk,           \* segment indexes whose file exists in TranscodeDir
    ready,          \* m.ready
    onReadyChange,  \* m.onReadyChange
    shutdown,       \* m.shutdown
    closed,         \* the channels closed so far
    cancelled,      \* m.ctx is cancelled
    metadata,       \* m.metadata
    playlist,       \* m.playlist
    segments,       \* m.segments
    segmentsTimes,  \* m.segmentsTimes
    task,           \* the initialization goroutines, one per Start
    caller,         \* the thread that calls Start and Stop
    preq,           \* the playlist requests
    mreq,           \* the segment requests
    executorCalls,  \* invocations of the Transcode Executor, per index
    panicked        \* "" or the message of the panic that ended the process

vars == <<config, media, cache, disk, ready, onReadyChange, shutdown, closed,
          cancelled, metadata, playlist, segments, segmentsTimes, task, caller,
          preq, mreq, executorCalls, panicked>>

\* ------------------------------------------------------------------ values
NilChan == 0

\* m.metadata: nil, a probe result, or what a failed json.Unmarshal left
NilMetadata == [nil |-> TRUE, hasPts |-> FALSE, PktPtsTime |-> <<>>, junk |-> FALSE]
JunkMetadata == [nil |-> FALSE, hasPts |-> FALSE, PktPtsTime |-> <<>>, junk |-> TRUE]
ProbeData(pts) == [nil |-> FALSE, hasPts |-> TRUE, PktPtsTime |-> pts, junk |-> FALSE]

\* a playlist line: a format and the argument printed into it
Line(text, arg) == [text |-> text, arg |-> arg]
NoPlaylist == <<>>
NilSegments == <<>>

\* ------------------------------------------------------ playlist generator
\* fmt's %.3f of a duration: microseconds rounded to the nearest millisecond
Format3Mutant(d) == d \div MicrosPerMilli
Format3(d) == (d + (MicrosPerMilli \div 2)) \div MicrosPerMilli

\* fmt's %.2f of the nominal segment duration, in hundredths of a second
Format2(d) == (d + (MicrosPerCenti \div 2)) \div MicrosPerCenti

\* getSegmentName: the prefix, then the index printed by "-%05d.ts"
getSegmentName(index) == Line(SegmentPrefix \o "-%05d.ts", index)

PlaylistPrefix ==
    << Line("#EXTM3U", 0),
       Line("#EXT-X-VERSION:4", 0),
       Line("#EXT-X-PLAYLIST-TYPE:VOD", 0),
       Line("#EXT-X-MEDIA-SEQUENCE:0", 0),
       Line("#EXT-X-TARGETDURATION:%.2f", Format2(segmentDuration)) >>

RECURSIVE PlaylistSegments(_, _)
PlaylistSegments(times, i) ==
    IF i > Len(times) THEN <<>>
    ELSE << Line("#EXTINF:%.3f, no desc", Format3(times[i] - times[i - 1])),
            getSegmentName(i - 1) >> \o PlaylistSegments(times, i + 1)

getPlaylistMutant(times) ==
    PlaylistPrefix \o PlaylistSegments(times, 3) \o << Line("#EXT-X-ENDLIST", 0) >>
getPlaylist(times) ==
    PlaylistPrefix \o PlaylistSegments(times, 2) \o << Line("#EXT-X-ENDLIST", 0) >>

\* ------------------------------------------------------------ environment
Tasks == 1..MaxStarts
PlaylistReqs == 1..NumPlaylistReqs
MediaReqs == 1..NumMediaReqs

\* the media of the Manager: MaxSegs + 1 key frames, 4.8004 s apart
MediaPts == [i \in 1..(MaxSegs + 1) |-> (i - 1) * 4800400]

\* encoding/json: Marshal wraps the metadata into bytes, Unmarshal unwraps them
Marshal(md) == <<"json", md>>
Unmarshal(data) == data[2]

\* a cache file: absent, unreadable, not deserializable, or a marshalled result
NoData == <<"none", NilMetadata>>
Entry(kind, data) == [kind |-> kind, data |-> data]
AbsentEntry == Entry("absent", NoData)
InitialEntries ==
    { AbsentEntry, Entry("unreadable", NoData), Entry("corrupt", <<"corrupt", NilMetadata>>),
      Entry("valid", Marshal(ProbeData(MediaPts))) }

\* the backend a Manager with this configuration reads and writes
Backend(cfg) == IF cfg.CacheDir # "" THEN "global" ELSE "local"

\* getCacheData: the bytes of the cache file, or the error of reading it
getCacheData(cfg, store) == store[Backend(cfg)]

\* ProbeMedia / ProbeVideo run ffprobe under m.ctx: a cancelled context fails them
ProbeOutcomes(isCancelled) == IF isCancelled THEN {FALSE} ELSE {TRUE, FALSE}

\* saveGlobalCacheData / saveLocalCacheData: the write succeeds or returns an error
SaveOutcomes == {TRUE, FALSE}

\* ------------------------------------------------------------------- state
NoTask == [pc |-> "none", i |-> 0, read |-> "", err |-> ""]
IdleCaller == [pc |-> "idle", starts |-> 0, stops |-> 0, ret |-> "", stopsInRow |-> 0]
NoPreq == [pc |-> "idle", ch |-> 0, sd |-> 0, resp |-> 0, via |-> "",
           afterStart |-> FALSE, sawStop |-> FALSE, sawFail |-> FALSE]
NoMreq == [pc |-> "idle", url |-> 0, resp |-> 0, statted |-> FALSE,
           inRange |-> FALSE, pending |-> FALSE]

\* New: the Manager as constructed, before any Start
ManagerNew ==
    /\ ready = FALSE
    /\ onReadyChange = NilChan
    /\ shutdown = NilChan
    /\ closed = {}
    /\ cancelled = FALSE
    /\ metadata = NilMetadata
    /\ playlist = NoPlaylist
    /\ segments = NilSegments
    /\ task = [t \in Tasks |-> NoTask]
    /\ caller = IdleCaller
    /\ preq = [r \in PlaylistReqs |-> NoPreq]
    /\ mreq = [r \in MediaReqs |-> NoMreq]
    /\ executorCalls = [i \in 0..(MaxSegs + 1) |-> 0]
    /\ panicked = ""

Configs ==
    { [Cache |-> FALSE, CacheDir |-> ""] } \cup
    { [Cache |-> TRUE, CacheDir |-> d] : d \in {"", "/var/cache"} }

\* the Manager just constructed, for a choice of configuration and environment
InitWith(cfgs, entries, disks, fasts) ==
    /\ config \in cfgs
    /\ media \in { [pts |-> MediaPts, fastHasPts |-> f] : f \in fasts }
    /\ \E e \in entries :
          /\ config.Cache \/ e = AbsentEntry
          /\ cache = [b \in {"global", "local"} |->
                         IF b = Backend(config) THEN e ELSE AbsentEntry]
    /\ disk \in disks
    /\ segmentsTimes = <<>>
    /\ ManagerNew

Init == InitWith(Configs, InitialEntries, {{}}, BOOLEAN)

Running == panicked = ""

\* ------------------------------------------------ initialization goroutine
\* the goroutine's next place once loadMetadata has the metadata in hand
AfterFetch(cfg) == IF cfg.Cache THEN "save" ELSE "init"

\* Start, lines 190-193: the goroutine returns when loadMetadata returns an error
OnLoadErrorMutant == "init"
OnLoadError == "failed"

\* note for the waiting playlist requests that this Start's initialization failed
NoteFail(t) ==
    [r \in PlaylistReqs |->
        IF preq[r].pc = "wait" /\ t = caller.starts
        THEN [preq[r] EXCEPT !.sawFail = TRUE] ELSE preq[r]]

\* loadMetadata, lines 97-109: read the cache and unmarshal what it holds
LoadMetadataRead(t) ==
    /\ Running
    /\ task[t].pc = "load"
    /\ LET e == getCacheData(config, cache) IN
            CASE e.kind = "valid" ->
                    /\ metadata' = Unmarshal(e.data)
                    /\ task' = [task EXCEPT ![t].pc = "init"]
              [] e.kind = "corrupt" ->
                    /\ metadata' \in {metadata, JunkMetadata}
                    /\ task' = [task EXCEPT ![t].pc = "probe", ![t].read = "corrupt"]
              [] OTHER ->
                    /\ UNCHANGED metadata
                    /\ task' = [task EXCEPT ![t].pc = "probe", ![t].read = e.kind]
    /\ UNCHANGED <<config, media, cache, disk, ready, onReadyChange, shutdown, closed,
                   cancelled, playlist, segments, segmentsTimes, caller, preq, mreq,
                   executorCalls, panicked>>

\* fetchMetadata, lines 64-74 and 83-85: the fast probe
FetchProbeMedia(t) ==
    /\ Running
    /\ task[t].pc = "probe"
    /\ \E ok \in ProbeOutcomes(cancelled) :
          IF ~ok
          THEN /\ task' = [task EXCEPT ![t].pc = OnLoadError, ![t].read = "",
                                       ![t].err = "unable probe media for metadata"]
               /\ preq' = NoteFail(t)
               /\ UNCHANGED metadata
          ELSE IF media.fastHasPts
          THEN /\ metadata' = ProbeData(media.pts)
               /\ task' = [task EXCEPT ![t].pc = AfterFetch(config)]
               /\ UNCHANGED preq
          ELSE /\ task' = [task EXCEPT ![t].pc = "scan"]
               /\ UNCHANGED <<metadata, preq>>
    /\ UNCHANGED <<config, media, cache, disk, ready, onReadyChange, shutdown, closed,
                   cancelled, playlist, segments, segmentsTimes, caller, mreq,
                   executorCalls, panicked>>

\* fetchMetadata, lines 74-85: the full scan for key frames
FetchProbeVideo(t) ==
    /\ Running
    /\ task[t].pc = "scan"
    /\ \E ok \in ProbeOutcomes(cancelled) :
          IF ~ok
          THEN /\ task' = [task EXCEPT ![t].pc = OnLoadError, ![t].read = "",
                                       ![t].err = "unable probe video for keyframes"]
               /\ preq' = NoteFail(t)
               /\ UNCHANGED metadata
          ELSE /\ metadata' = ProbeData(media.pts)
               /\ task' = [task EXCEPT ![t].pc = AfterFetch(config)]
               /\ UNCHANGED preq
    /\ UNCHANGED <<config, media, cache, disk, ready, onReadyChange, shutdown, closed,
                   cancelled, playlist, segments, segmentsTimes, caller, mreq,
                   executorCalls, panicked>>

\* the backend loadMetadata writes the fresh metadata to, lines 122-126
SaveBackendMutant(cfg) == IF cfg.CacheDir # "" THEN "local" ELSE "global"
SaveBackend(cfg) == IF cfg.CacheDir # "" THEN "global" ELSE "local"

\* loadMetadata, lines 116-126: marshal the fresh metadata and write it back
LoadMetadataSave(t) ==
    /\ Running
    /\ task[t].pc = "save"
    /\ \E ok \in SaveOutcomes :
          IF ok
          THEN /\ cache' = [cache EXCEPT ![SaveBackend(config)] =
                                 Entry("valid", Marshal(metadata))]
               /\ task' = [task EXCEPT ![t].pc = "init"]
               /\ UNCHANGED preq
          ELSE /\ task' = [task EXCEPT ![t].pc = OnLoadError, ![t].read = "",
                                       ![t].err = "cache write failed"]
               /\ preq' = NoteFail(t)
               /\ UNCHANGED cache
    /\ UNCHANGED <<config, media, disk, ready, onReadyChange, shutdown, closed,
                   cancelled, metadata, playlist, segments, segmentsTimes, caller, mreq,
                   executorCalls, panicked>>

\* initialize, lines 160-168: the segment times, the playlist, an empty table
initialize(t) ==
    /\ Running
    /\ task[t].pc = "init"
    /\ segmentsTimes' = metadata.PktPtsTime
    /\ playlist' = getPlaylist(segmentsTimes')
    /\ segments' = <<>>
    /\ IF 1 < Len(segmentsTimes')
       THEN task' = [task EXCEPT ![t].pc = "fill", ![t].i = 1, ![t].read = ""]
       ELSE task' = [task EXCEPT ![t].pc = "publish", ![t].read = ""]
    /\ UNCHANGED <<config, media, cache, disk, ready, onReadyChange, shutdown, closed,
                   cancelled, metadata, caller, preq, mreq, executorCalls, panicked>>

\* initialize, lines 169-171: one turn of the loop that fills the table
initializeFill(t) ==
    /\ Running
    /\ task[t].pc = "fill"
    /\ segments' = [k \in (DOMAIN segments) \cup {task[t].i} |->
                        IF k = task[t].i THEN FALSE ELSE segments[k]]
    /\ IF task[t].i + 1 < Len(segmentsTimes)
       THEN task' = [task EXCEPT ![t].i = @ + 1]
       ELSE task' = [task EXCEPT ![t].pc = "publish", ![t].i = 0]
    /\ UNCHANGED <<config, media, cache, disk, ready, onReadyChange, shutdown, closed,
                   cancelled, metadata, playlist, segmentsTimes, caller, preq, mreq,
                   executorCalls, panicked>>

\* Start, lines 198-202: under the lock, set ready and close m.onReadyChange
Publish(t) ==
    /\ Running
    /\ task[t].pc = "publish"
    /\ ready' = TRUE
    /\ IF onReadyChange \in closed
       THEN /\ panicked' = "close of closed channel"
            /\ UNCHANGED closed
       ELSE /\ closed' = closed \cup {onReadyChange}
            /\ UNCHANGED panicked
    /\ task' = [task EXCEPT ![t].pc = "done"]
    /\ UNCHANGED <<config, media, cache, disk, onReadyChange, shutdown, cancelled,
                   metadata, playlist, segments, segmentsTimes, caller, preq, mreq,
                   executorCalls>>

TaskStep(t) ==
    \/ LoadMetadataRead(t)
    \/ FetchProbeMedia(t)
    \/ FetchProbeVideo(t)
    \/ LoadMetadataSave(t)
    \/ initialize(t)
    \/ initializeFill(t)
    \/ Publish(t)

\* ----------------------------------------------------------------- caller
\* Start, lines 177-179: the unsynchronized check of m.ready
StartCheck ==
    /\ Running
    /\ caller.pc = "idle"
    /\ ready \/ caller.starts < MaxStarts
    /\ IF ready
       THEN caller' = [caller EXCEPT !.ret = "already running"]
       ELSE caller' = [caller EXCEPT !.pc = "start"]
    /\ UNCHANGED <<config, media, cache, disk, ready, onReadyChange, shutdown, closed,
                   cancelled, metadata, playlist, segments, segmentsTimes, task, preq,
                   mreq, executorCalls, panicked>>

\* the channels the k-th Start makes
ShutdownChan(k) == 2 * k - 1
ReadyChan(k) == 2 * k

\* m.ready as Start leaves it, line 184
StartReadyMutant(r) == r
StartReady(r) == FALSE

\* loadMetadata, lines 92-95: where the goroutine starts
FirstStep(cfg) == IF cfg.Cache THEN "load" ELSE "probe"

\* Start, lines 181-207: reset the signals under the lock, launch the goroutine
StartReset ==
    /\ Running
    /\ caller.pc = "start"
    /\ shutdown' = ShutdownChan(caller.starts + 1)
    /\ ready' = StartReady(ready)
    /\ onReadyChange' = ReadyChan(caller.starts + 1)
    /\ task' = [task EXCEPT ![caller.starts + 1].pc = FirstStep(config)]
    /\ caller' = [caller EXCEPT !.pc = "idle", !.starts = @ + 1, !.ret = "nil",
                                !.stopsInRow = 0]
    /\ UNCHANGED <<config, media, cache, disk, closed, cancelled, metadata, playlist,
                   segments, segmentsTimes, preq, mreq, executorCalls, panicked>>

\* Stop, lines 210-221
Stop ==
    /\ Running
    /\ caller.pc = "idle"
    /\ caller.stops < MaxStops
    /\ cancelled' = TRUE
    /\ caller' = [caller EXCEPT !.stops = @ + 1, !.stopsInRow = @ + 1, !.ret = ""]
    /\ preq' = [r \in PlaylistReqs |->
                   IF preq[r].pc = "wait"
                   THEN [preq[r] EXCEPT !.sawStop = TRUE] ELSE preq[r]]
    /\ IF shutdown = NilChan
       THEN /\ panicked' = "close of nil channel"
            /\ UNCHANGED <<closed, ready>>
       ELSE IF shutdown \in closed
       THEN /\ panicked' = "close of closed channel"
            /\ UNCHANGED <<closed, ready>>
       ELSE /\ closed' = closed \cup {shutdown}
            /\ ready' = FALSE
            /\ UNCHANGED panicked
    /\ UNCHANGED <<config, media, cache, disk, onReadyChange, shutdown, metadata,
                   playlist, segments, segmentsTimes, task, mreq, executorCalls>>

\* ------------------------------------------------------- playlist requests
StatusOK == 200
StatusNotFound == 404
StatusInternalServerError == 500
StatusGatewayTimeout == 504

\* requests are alike: they arrive in the order of their numbers
PreqTurn(r) == preq[r].pc = "idle" /\ (IF r = 1 THEN TRUE ELSE preq[r - 1].pc # "idle")
MreqTurn(r) == mreq[r].pc = "idle" /\ (IF r = 1 THEN TRUE ELSE mreq[r - 1].pc # "idle")

\* the initialization of the current Start has already failed
CurrentInitFailed == caller.starts > 0 /\ task[caller.starts].pc = "failed"

\* ServePlaylist, lines 230-233 and 252-253: serve at once, or enter the select
ServePlaylistEnter(r) ==
    /\ Running
    /\ PreqTurn(r)
    /\ IF ready
       THEN preq' = [preq EXCEPT ![r].pc = "done", ![r].resp = StatusOK,
                                 ![r].via = "direct",
                                 ![r].afterStart = caller.starts > 0]
       ELSE preq' = [preq EXCEPT ![r].pc = "wait", ![r].ch = onReadyChange,
                                 ![r].sd = shutdown,
                                 ![r].afterStart = caller.starts > 0,
                                 ![r].sawStop = shutdown \in closed,
                                 ![r].sawFail = CurrentInitFailed]
    /\ UNCHANGED <<config, media, cache, disk, ready, onReadyChange, shutdown, closed,
                   cancelled, metadata, playlist, segments, segmentsTimes, task, caller,
                   mreq, executorCalls, panicked>>

\* the status ServePlaylist answers once woken by the readiness event, lines 235-239
StatusAfterReadyEventMutant(isReady) == StatusOK
StatusAfterReadyEvent(isReady) ==
    IF isReady THEN StatusOK ELSE StatusInternalServerError

\* ServePlaylist, lines 233-239: woken by the close of the readiness channel
ServePlaylistOnReady(r) ==
    /\ Running
    /\ preq[r].pc = "wait"
    /\ preq[r].ch \in closed
    /\ preq' = [preq EXCEPT ![r].pc = "done", ![r].ch = NilChan, ![r].sd = NilChan,
                            ![r].via = "ready",
                            ![r].resp = StatusAfterReadyEvent(ready)]
    /\ UNCHANGED <<config, media, cache, disk, ready, onReadyChange, shutdown, closed,
                   cancelled, metadata, playlist, segments, segmentsTimes, task, caller,
                   mreq, executorCalls, panicked>>

\* ServePlaylist, lines 241-244: woken by the close of the shutdown channel
ServePlaylistOnShutdown(r) ==
    /\ Running
    /\ preq[r].pc = "wait"
    /\ preq[r].sd \in closed
    /\ preq' = [preq EXCEPT ![r].pc = "done", ![r].ch = NilChan, ![r].sd = NilChan,
                            ![r].via = "shutdown",
                            ![r].resp = StatusInternalServerError]
    /\ UNCHANGED <<config, media, cache, disk, ready, onReadyChange, shutdown, closed,
                   cancelled, metadata, playlist, segments, segmentsTimes, task, caller,
                   mreq, executorCalls, panicked>>

\* ServePlaylist, lines 245-248: readyTimeout elapsed
ServePlaylistOnTimeout(r) ==
    /\ Running
    /\ preq[r].pc = "wait"
    /\ preq' = [preq EXCEPT ![r].pc = "done", ![r].ch = NilChan, ![r].sd = NilChan,
                            ![r].via = "timeout",
                            ![r].resp = StatusGatewayTimeout]
    /\ UNCHANGED <<config, media, cache, disk, ready, onReadyChange, shutdown, closed,
                   cancelled, metadata, playlist, segments, segmentsTimes, task, caller,
                   mreq, executorCalls, panicked>>

\* -------------------------------------------------------- segment requests
\* the index ServeMedia looks up, line 258 (the index of the URL is not read)
MediaIndexMutant(url) == url + 1
MediaIndexFromURL(url) == url
MediaIndex(url) == 0

\* a segment request arrives for the index in its URL
ServeMediaArrive(r) ==
    /\ Running
    /\ MreqTurn(r)
    /\ \E u \in 0..(MaxSegs + 1) : mreq' = [mreq EXCEPT ![r].pc = "lookup", ![r].url = u]
    /\ UNCHANGED <<config, media, cache, disk, ready, onReadyChange, shutdown, closed,
                   cancelled, metadata, playlist, segments, segmentsTimes, task, caller,
                   preq, executorCalls, panicked>>

\* ServeMedia, lines 258-293
ServeMedia(r) ==
    /\ Running
    /\ mreq[r].pc = "lookup"
    /\ LET index == MediaIndex(mreq[r].url)
           seen == [mreq[r] EXCEPT
                      !.pc = "done",
                      !.inRange = mreq[r].url \in 1..(Len(segmentsTimes) - 1),
                      !.pending = IF mreq[r].url \in DOMAIN segments
                                  THEN ~segments[mreq[r].url] ELSE FALSE]
       IN
       IF index \notin DOMAIN segments
       THEN mreq' = [mreq EXCEPT ![r] = [seen EXCEPT !.resp = StatusNotFound]]
       ELSE IF index \notin disk
       THEN mreq' = [mreq EXCEPT ![r] = [seen EXCEPT !.resp = StatusNotFound,
                                                     !.statted = TRUE]]
       ELSE mreq' = [mreq EXCEPT ![r] = [seen EXCEPT !.resp = StatusOK,
                                                     !.statted = TRUE]]
    /\ UNCHANGED <<config, media, cache, disk, ready, onReadyChange, shutdown, closed,
                   cancelled, metadata, playlist, segments, segmentsTimes, task, caller,
                   preq, executorCalls, panicked>>

\* m.segments is read and written without the lock: the Go runtime ends the
\* process when it sees a map written while another goroutine reads or writes it
MapRaceFatal ==
    /\ Running
    /\ \E t \in Tasks :
          /\ task[t].pc = "fill"
          /\ \/ \E u \in Tasks \ {t} : task[u].pc = "fill"
             \/ \E r \in MediaReqs : mreq[r].pc = "lookup"
    /\ panicked' = "concurrent map access"
    /\ UNCHANGED <<config, media, cache, disk, ready, onReadyChange, shutdown, closed,
                   cancelled, metadata, playlist, segments, segmentsTimes, task, caller,
                   preq, mreq, executorCalls>>

\* ----------------------------------------------------------- specifications
\* the lifecycle: Start, Stop and the initialization goroutines
Lifecycle ==
    \/ StartCheck
    \/ StartReset
    \/ Stop
    \/ \E t \in Tasks : TaskStep(t)
    \/ MapRaceFatal

Next == Lifecycle

Spec == Init /\ [][Next]_vars

\* the steps of a goroutine when caching is disabled and the fast probe
\* reports the key frames: no cache read, no full scan, no cache write
TaskStepPlain(t) ==
    \/ FetchProbeMedia(t)
    \/ initialize(t)
    \/ initializeFill(t)
    \/ Publish(t)

NoCache == [Cache |-> FALSE, CacheDir |-> ""]

\* the lifecycle with playlist requests, caching disabled
InitGate == InitWith({NoCache}, {AbsentEntry}, {{}}, {TRUE})

NextGate ==
    \/ StartCheck
    \/ StartReset
    \/ Stop
    \/ \E t \in Tasks : TaskStepPlain(t)
    \/ MapRaceFatal
    \/ \E r \in PlaylistReqs :
          \/ ServePlaylistEnter(r)
          \/ ServePlaylistOnReady(r)
          \/ ServePlaylistOnShutdown(r)
          \/ ServePlaylistOnTimeout(r)

SpecGate == InitGate /\ [][NextGate]_vars

\* a Manager started once, serving segment requests, caching disabled
InitMedia == InitWith({NoCache}, {AbsentEntry}, {{}, {1}}, {TRUE})

NextMedia ==
    \/ caller.starts = 0 /\ StartCheck
    \/ caller.starts = 0 /\ StartReset
    \/ \E t \in Tasks : TaskStepPlain(t)
    \/ \E r \in MediaReqs : ServeMediaArrive(r) \/ ServeMedia(r)
    \/ MapRaceFatal

SpecMedia == InitMedia /\ [][NextMedia]_vars

\* a Manager started once, for every configuration and state of the cache
NextLoad ==
    \/ caller.starts = 0 /\ StartCheck
    \/ caller.starts = 0 /\ StartReset
    \/ \E t \in Tasks : TaskStep(t)

SpecLoad == Init /\ [][NextLoad]_vars

\* getPlaylist alone, on every strictly increasing time stamp sequence that
\* starts at 0, in steps of 200 microseconds
Ticks == { 200 * k : k \in 0..MaxTick }
KeyframeSeqs ==
    { s \in UNION { [1..n -> Ticks] : n \in 1..MaxKeyframes } :
        /\ s[1] = 0
        /\ \A i \in 1..(Len(s) - 1) : s[i] < s[i + 1] }

InitPlaylist ==
    /\ config = NoCache
    /\ media = [pts |-> MediaPts, fastHasPts |-> TRUE]
    /\ cache = [b \in {"global", "local"} |-> AbsentEntry]
    /\ disk = {}
    /\ segmentsTimes \in KeyframeSeqs
    /\ ManagerNew

\* initialize, line 165: m.playlist = m.getPlaylist()
GeneratePlaylist ==
    /\ playlist = NoPlaylist
    /\ playlist' = getPlaylist(segmentsTimes)
    /\ UNCHANGED <<config, media, cache, disk, ready, onReadyChange, shutdown, closed,
                   cancelled, metadata, segments, segmentsTimes, task, caller, preq,
                   mreq, executorCalls, panicked>>

SpecPlaylist == InitPlaylist /\ [][GeneratePlaylist]_vars

\* probes that succeed whenever m.ctx is not cancelled
FetchProbeMediaReliable(t) ==
    FetchProbeMedia(t) /\ (~cancelled => task'[t].pc # "failed")
FetchProbeVideoReliable(t) ==
    FetchProbeVideo(t) /\ (~cancelled => task'[t].pc # "failed")

\* the steps of a goroutine with caching disabled and such probes
TaskStepReliable(t) ==
    \/ FetchProbeMediaReliable(t)
    \/ FetchProbeVideoReliable(t)
    \/ initialize(t)
    \/ initializeFill(t)
    \/ Publish(t)

\* a Manager that is started, stopped and started again while it serves
\* playlist requests, caching disabled; a goroutine that can take a step
\* eventually takes one
InitRestart == InitWith({NoCache}, {AbsentEntry}, {{}}, BOOLEAN)

NextRestart ==
    \/ caller.starts = caller.stops /\ StartCheck
    \/ StartReset
    \/ caller.starts = 1 /\ caller.stops = 0 /\ Stop
    \/ \E t \in Tasks : TaskStepReliable(t)
    \/ \E r \in PlaylistReqs :
          \/ ServePlaylistEnter(r)
          \/ ServePlaylistOnReady(r)
          \/ ServePlaylistOnShutdown(r)
          \/ ServePlaylistOnTimeout(r)

FairRestart == \A t \in Tasks : WF_vars(TaskStepReliable(t))

SpecRestart == InitRestart /\ [][NextRestart]_vars /\ FairRestart

\* =================================================================== claims

\* C1: N concurrent segment requests for the same not-yet-available index make
\* exactly one Transcode Executor invocation for it, and all of them end in the
\* same terminal state: the segment served (200) or its production failed (500).
C1_SingleFlight ==
    \A r \in MediaReqs :
        (mreq[r].pc = "done" /\ mreq[r].inRange /\ mreq[r].pending) =>
            /\ executorCalls[mreq[r].url] = 1
            /\ mreq[r].resp \in {StatusOK, StatusInternalServerError}
            /\ \A q \in MediaReqs :
                  (mreq[q].pc = "done" /\ mreq[q].url = mreq[r].url /\ mreq[q].pending)
                      => mreq[q].resp = mreq[r].resp

\* C2: a playlist request issued after Start and before ready ends in one of
\* three outcomes: 200 once the readiness event fired with ready true, 504 once
\* readyTimeout elapsed, 500 once Stop was called.
C2_ThreeOutcomes ==
    \A r \in PlaylistReqs :
        (preq[r].pc = "done" /\ preq[r].afterStart /\ preq[r].via # "direct") =>
            \/ preq[r].resp = StatusOK /\ preq[r].via = "ready"
            \/ preq[r].resp = StatusGatewayTimeout /\ preq[r].via = "timeout"
            \/ preq[r].resp = StatusInternalServerError /\ preq[r].sawStop

\* C3: two Stop calls in a row on a started Manager do not panic; after the
\* second, ready is false and the shutdown signal is fired.
C3_StopIdempotent ==
    (caller.starts >= 1 /\ caller.stopsInRow >= 2) =>
        /\ panicked = ""
        /\ ~ready
        /\ shutdown \in closed

\* C4: Start on a ready Manager returns "already running" and changes nothing;
\* Start on a Manager that is not ready returns nil, sets ready to false, makes
\* two fresh signals and launches exactly one goroutine, which has not run yet
\* when Start returns.
C4_StartOnReady ==
    (caller.pc = "idle" /\ caller'.stops = caller.stops /\ caller' # caller /\ ready) =>
        /\ caller' = [caller EXCEPT !.ret = "already running"]
        /\ UNCHANGED <<ready, onReadyChange, shutdown, closed, cancelled, metadata,
                       playlist, segments, segmentsTimes, task>>
C4_StartOnNotReady ==
    /\ (caller.pc = "idle" /\ caller'.pc = "start") => ~ready
    /\ (caller.pc = "start" /\ caller'.pc = "idle") =>
          /\ caller'.ret = "nil"
          /\ ready' = FALSE
          /\ shutdown' \notin {NilChan, shutdown, onReadyChange} \cup closed
          /\ onReadyChange' \notin {NilChan, shutdown, onReadyChange, shutdown'} \cup closed
          /\ closed' = closed
          /\ \E t \in Tasks :
                /\ task[t].pc = "none"
                /\ task'[t].pc \in {"load", "probe"}
                /\ \A u \in Tasks \ {t} : task'[u] = task[u]
C4_Start == [][C4_StartOnReady /\ C4_StartOnNotReady]_vars
C4_Witness ==
    /\ caller.ret = "already running"
    /\ caller.starts >= 1
    /\ ready

\* The goroutine launched by the t-th Start takes its publishing step:
Publishes(t) == task[t].pc = "publish" /\ task'[t].pc = "done"

\* C9: for every Start the readiness event fires at most once, and exactly at
\* the step where ready goes from false to true: a goroutine closes the channel
\* of its own Start, which is still open, and no close(m.onReadyChange) panics.
C9_ReadyEventOncePerStart ==
    [][ /\ \A t \in Tasks :
              Publishes(t) =>
                  /\ ~ready /\ ready'
                  /\ onReadyChange = ReadyChan(t)
                  /\ onReadyChange \notin closed
                  /\ panicked' = ""
        /\ (~ready /\ ready') => closed' = closed \cup {onReadyChange}
      ]_vars

\* C10: when loadMetadata returns an error (fast probe, full scan, or the
\* cache write) the goroutine aborts: that step and every later one leave
\* ready, the readiness event, the playlist and the table as they are, and the
\* goroutine takes no further step (no retry within the same Start).
C10_Fails(t) == task[t].err = "" /\ task'[t].err # ""
ExtinfText == "#EXTINF:%.3f, no desc"
IsExtinf(l) == l.text = ExtinfText
IsEndlist(l) == l.text = "#EXT-X-ENDLIST"
Abs(x) == IF x < 0 THEN -x ELSE x
RECURSIVE SumExtinf(_, _)
SumExtinf(p, k) ==
    IF k = 0 THEN 0
    ELSE (IF IsExtinf(p[k]) THEN p[k].arg ELSE 0) + SumExtinf(p, k - 1)

\* the parts of C5 that do not depend on how a duration is printed: the five
\* header lines, n #EXTINF lines each followed by the URI of its segment, in
\* ascending order, and a single #EXT-X-ENDLIST, which is the last line
C5_Layout(p, t) ==
    LET n == Len(t) - 1 IN
    /\ Len(p) = 5 + 2 * n + 1
    /\ SubSeq(p, 1, 5) = << Line("#EXTM3U", 0),
                            Line("#EXT-X-VERSION:4", 0),
                            Line("#EXT-X-PLAYLIST-TYPE:VOD", 0),
                            Line("#EXT-X-MEDIA-SEQUENCE:0", 0),
                            Line("#EXT-X-TARGETDURATION:%.2f", 475) >>
    /\ Cardinality({ k \in DOMAIN p : IsExtinf(p[k]) }) = n
    /\ \A i \in 1..n :
          /\ IsExtinf(p[4 + 2 * i])
          /\ p[5 + 2 * i] = Line("seg-%05d.ts", i)
    /\ { k \in DOMAIN p : IsEndlist(p[k]) } = { Len(p) }

\* C5 as stated: the i-th #EXTINF duration is timestamps[i] - timestamps[i-1],
\* and the durations sum to the last time stamp.
C5_PlaylistExact ==
    playlist # NoPlaylist =>
        LET t == segmentsTimes
            n == Len(t) - 1
        IN
        /\ C5_Layout(playlist, t)
        /\ \A i \in 1..n : playlist[4 + 2 * i].arg * MicrosPerMilli = t[i + 1] - t[i]
        /\ SumExtinf(playlist, Len(playlist)) * MicrosPerMilli = t[Len(t)]

\* C5 as amended: the i-th #EXTINF duration is timestamps[i] - timestamps[i-1]
\* rounded to three decimals (at most 0.0005 s away from it); the durations sum
\* to the last time stamp to within 0.0005 s per segment, and exactly when
\* every time stamp is a whole number of milliseconds.
C5_PlaylistRounded ==
    playlist # NoPlaylist =>
        LET t == segmentsTimes
            n == Len(t) - 1
            total == SumExtinf(playlist, Len(playlist)) * MicrosPerMilli
            whole == \A i \in 1..Len(t) : t[i] % MicrosPerMilli = 0
        IN
        /\ C5_Layout(playlist, t)
        /\ \A i \in 1..n :
              2 * Abs(playlist[4 + 2 * i].arg * MicrosPerMilli - (t[i + 1] - t[i]))
                  <= MicrosPerMilli
        /\ 2 * Abs(total - t[Len(t)]) <= n * MicrosPerMilli
        /\ whole =>
              /\ \A i \in 1..n :
                    playlist[4 + 2 * i].arg * MicrosPerMilli = t[i + 1] - t[i]
              /\ total = t[Len(t)]
C5_Witness ==
    /\ playlist # NoPlaylist
    /\ Len(segmentsTimes) >= 3
    /\ \E i \in 1..(Len(segmentsTimes) - 1) :
          (segmentsTimes[i + 1] - segmentsTimes[i]) % MicrosPerMilli # 0
    /\ \E i \in 1..(Len(segmentsTimes) - 1) :
          (segmentsTimes[i + 1] - segmentsTimes[i]) % MicrosPerMilli = 0

\* C6: with caching enabled and a corrupted cache entry, loadMetadata probes
\* afresh and returns success with m.metadata equal to the probed result and
\* the cache overwritten with it.
C6_CorruptCacheFallback ==
    [][ \A t \in Tasks :
          (task[t].pc = "save" /\ task[t].read = "corrupt" /\ task'[t].pc # "save") =>
              /\ task'[t].pc = "init"
              /\ task'[t].err = ""
              /\ metadata' = ProbeData(media.pts)
              /\ cache'[Backend(config)] = Entry("valid", Marshal(ProbeData(media.pts)))
      ]_vars

\* C7: a segment request for an index outside [1, N] is answered 404 without
\* a look at the disk, without an executor invocation, and with the table left
\* as it is.
C7_OutOfRange404 ==
    [][ \A r \in MediaReqs :
          (mreq[r].pc = "lookup" /\ mreq'[r].pc = "done" /\ ~mreq'[r].inRange) =>
              /\ mreq'[r].resp = StatusNotFound
              /\ ~mreq'[r].statted
              /\ UNCHANGED <<segments, executorCalls, disk>>
      ]_vars
C7_Witness ==
    /\ DOMAIN segments # {}
    /\ \E r \in MediaReqs :
          /\ mreq[r].pc = "done"
          /\ mreq[r].url = 0
          /\ ~mreq[r].inRange
    /\ \E r \in MediaReqs :
          /\ mreq[r].pc = "done"
          /\ mreq[r].url = Len(segmentsTimes)
          /\ ~mreq[r].inRange

\* C8: a playlist request that waits at the readiness gate, or arrives, when
\* the initialization of the current Start has failed is answered 500.
C8_InitFailureAnswers500 ==
    \A r \in PlaylistReqs :
        (preq[r].pc = "done" /\ preq[r].afterStart /\ preq[r].sawFail) =>
            preq[r].resp = StatusInternalServerError

\* the steps taken between m.mu.Lock() and m.mu.Unlock(): the reset of Start
\* (lines 181-186), the publication by the goroutine (lines 198-202), and Stop
\* (lines 211-221)
HoldsMu == StartReset \/ Stop \/ \E t \in Tasks : Publish(t)

\* C11: every step that writes ready, the table of segments, the shutdown or
\* readiness signal, or the playlist is taken by a task that holds m.mu; so are
\* the writes of initialize (segmentsTimes, playlist, segments).
C11_MutationsUnderLock ==
    [][ ( \/ ready' # ready
          \/ segments' # segments
          \/ segmentsTimes' # segmentsTimes
          \/ playlist' # playlist
          \/ shutdown' # shutdown
          \/ onReadyChange' # onReadyChange
          \/ closed' # closed ) => HoldsMu
      ]_vars

\* C12: on a started Manager, a segment request handled while ready is false
\* is answered 500 or 504, never 404 or 200, and the disk is not looked at.
C12_MediaChecksReady ==
    [][ \A r \in MediaReqs :
          (mreq[r].pc = "lookup" /\ mreq'[r].pc = "done" /\ caller.starts >= 1 /\ ~ready) =>
              /\ mreq'[r].resp \in {StatusInternalServerError, StatusGatewayTimeout}
              /\ ~mreq'[r].statted
      ]_vars

\* C13: whenever ready is true the table has exactly the keys 1..N, N being
\* Len(segmentsTimes) - 1, every entry false, and the playlist is the one
\* generated from the same segmentsTimes.
C13_ReadyMeansInitialized ==
    ready =>
        /\ DOMAIN segments = 1..(Len(segmentsTimes) - 1)
        /\ \A k \in DOMAIN segments : segments[k] = FALSE
        /\ playlist = getPlaylist(segmentsTimes)

\* C14: with caching disabled the goroutine goes straight to the probe and the
\* cache is neither read nor written; with caching enabled, an entry that reads
\* and unmarshals gives m.metadata and success with no probe and no write;
\* any other outcome of the read leads to the probe, and a probe that succeeds
\* is followed by exactly one cache write, to the global backend if CacheDir is
\* not empty and to the local backend otherwise.
C14_CachePolicy ==
    [][ \A t \in Tasks :
          LET e == getCacheData(config, cache)
              target == IF config.CacheDir # "" THEN "global" ELSE "local"
              other == IF config.CacheDir # "" THEN "local" ELSE "global"
          IN
          /\ ~config.Cache =>
                /\ task'[t].pc \notin {"load", "save"}
                /\ (task[t].pc = "none" /\ task'[t].pc # "none") => task'[t].pc = "probe"
                /\ cache' = cache
          /\ (config.Cache /\ task[t].pc = "none" /\ task'[t].pc # "none") =>
                task'[t].pc = "load"
          /\ (task[t].pc = "load" /\ task'[t].pc # "load") =>
                /\ cache' = cache
                /\ IF e.kind = "valid"
                   THEN /\ task'[t].pc = "init"
                        /\ task'[t].err = ""
                        /\ metadata' = e.data[2]
                   ELSE task'[t].pc = "probe"
          /\ (config.Cache /\ task[t].pc \in {"probe", "scan"} /\ task'[t].pc # task[t].pc) =>
                /\ cache' = cache
                /\ task'[t].pc \in {"scan", "save", "failed"}
          /\ (task[t].pc = "save" /\ task'[t].pc # "save") =>
                /\ cache'[other] = cache[other]
                /\ task'[t].pc \in {"init", "failed"}
                /\ task'[t].pc = "init" =>
                      cache'[target] = Entry("valid", <<"json", metadata>>)
          /\ task[t].pc \in {"init", "fill", "publish", "done", "failed"} =>
                (task'[t].pc \notin {"load", "probe", "scan", "save"} /\
                 (cache' # cache => \E u \in Tasks \ {t} : task[u].pc = "save"))
      ]_vars
C14_Witness ==
    \E t \in Tasks :
        /\ config.Cache /\ config.CacheDir # ""
        /\ task[t].pc = "init"
        /\ task[t].read = "unreadable"
        /\ cache["global"] = Entry("valid", <<"json", ProbeData(MediaPts)>>)
        /\ cache["local"] = AbsentEntry

\* C15: the cache is advisory: once the probes have succeeded, loadMetadata
\* returns success and the goroutine goes on to initialize, whatever the cache
\* read gave and whether or not the write-back succeeds.
C15_CacheAdvisory ==
    [][ \A t \in Tasks :
          (task[t].pc = "save" /\ task'[t] # task[t]) =>
              /\ task'[t].pc = "init"
              /\ task'[t].err = ""
      ]_vars

\* C16: ServeMedia answers 200 for index i only when the table says segment i
\* is available; while the table says it is not (false), a file that exists on
\* disk for it is not served.
C16_NoPartialFile ==
    [][ \A r \in MediaReqs :
          (mreq[r].pc = "lookup" /\ mreq'[r].pc = "done") =>
              LET i == mreq[r].url IN
              /\ mreq'[r].resp = StatusOK => (i \in DOMAIN segments /\ segments[i])
              /\ (i \in DOMAIN segments /\ ~segments[i] /\ i \in disk) =>
                    mreq'[r].resp # StatusOK
      ]_vars
C16_Witness ==
    \E r \in MediaReqs :
        /\ mreq[r].pc = "done"
        /\ mreq[r].pending
        /\ mreq[r].url \in disk
        /\ mreq[r].resp = StatusNotFound

\* C17: once Stop has returned, ready stays false until Start is called again:
\* no goroutine of an earlier Start sets it back to true.
C17_StoppedStaysNotReady ==
    (caller.stopsInRow >= 1 /\ caller.pc = "idle" /\ panicked = "") => ~ready

\* C18: after Start, Stop, Start, with caching disabled and a probe that fails
\* only under a cancelled context, the goroutine of the second Start
\* eventually sets ready to true.
C18_RestartBecomesReady ==
    (caller.starts = 2 /\ caller.stops = 1) ~> (task[2].pc = "done" /\ ready)

\* C19: a playlist request that entered the gate after Start and is waiting
\* while the Manager is ready, with no Stop since it arrived, has been woken:
\* the readiness channel it waits on is closed; and woken that way it answers
\* 200.  This holds also when Start was called again while it waited.
C19_NoStaleWaiter ==
    \A r \in PlaylistReqs :
        /\ (preq[r].pc = "wait" /\ preq[r].afterStart /\ ~preq[r].sawStop /\ ready) =>
              preq[r].ch \in closed
        /\ (preq[r].pc = "done" /\ preq[r].afterStart /\ ~preq[r].sawStop
                /\ preq[r].via = "ready" /\ ready) =>
              preq[r].resp = StatusOK

\* C20: a Stop step, in whatever state it is taken (also before any Start),
\* does not panic and leaves ready false.
C20_StopSafe ==
    [][ caller'.stops = caller.stops + 1 => (panicked' = "" /\ ~ready') ]_vars

====
